---- MODULE Spec2Model ----
(***************************************************************************)
(* Model of LiveSyncManager (src/src/yt-actual-live.user.ts, the class at  *)
(* lines 263-449): the seek classifier (timeupdate / seeking / seeked      *)
(* handlers), the sync controller (runSyncLoop / handleSync) and the       *)
(* public control surface, together with the video element and the clock   *)
(* they read and write.                                                    *)
(*                                                                         *)
(* Media times are whole seconds, Date.now() is in milliseconds.           *)
(***************************************************************************)
EXTENDS Integers, Sequences, FiniteSets, TLC

VARIABLES
    config,         \* this.config {enabled, targetBuffer, checkInterval, debugLogging}
    stored,         \* localStorage['liveSyncConfig'] (parsed), or NoStore
    dvrModeActive,  \* this.dvrModeActive
    lastKnownTime,  \* this.lastKnownTime
    seekStartTime,  \* this.seekStartTime
    lastSyncTime,   \* this.lastSyncTime
    syncCooldown,   \* this.syncCooldown
    lastVideoId,    \* this.lastVideoId
    now,            \* Date.now()
    videoTime,      \* video.currentTime of the page's video element
    seekPhase,      \* progress of the seek in flight on the video element
    loopAlive,      \* the setTimeout chain of runSyncLoop is still scheduled
    ev,             \* the last operation: what it read and the seeks it issued
    hist            \* history of the ticks (observation only); where the
                    \* script body is run, the window it runs in

ctrlVars == <<dvrModeActive, lastKnownTime, seekStartTime, lastSyncTime,
              syncCooldown, lastVideoId>>
vars == <<config, stored, dvrModeActive, lastKnownTime, seekStartTime,
          lastSyncTime, syncCooldown, lastVideoId, now, videoTime, seekPhase,
          loopAlive, ev, hist>>

----------------------------------------------------------------------------
(* Bounds of the exploration *)

MaxTime == 7
MaxClockSteps == 1
\* runs of the script body in the top window, and in frames
MaxRuns == 3

(* media positions and buffered edges the environment produces: the start,   *)
(* MaxTime, and the position 5 s before MaxTime, so that a backward jump or  *)
(* a latency is less than, exactly or more than 5 seconds                    *)
Times == {0, MaxTime - 5, MaxTime}

----------------------------------------------------------------------------
(* JavaScript values *)

NaN == -1000
NonNumber == -2000
NoBuffer == -1
NULL == "<null>"
JsonNull == -3000

jsAdd(a, b) == IF a = NaN \/ b = NaN THEN NaN ELSE a + b
jsSub(a, b) == IF a = NaN \/ b = NaN THEN NaN ELSE a - b
jsGt(a, b) == a # NaN /\ b # NaN /\ a > b
jsLe(a, b) == a # NaN /\ b # NaN /\ a <= b
jsLt(a, b) == a # NaN /\ b # NaN /\ a < b

----------------------------------------------------------------------------
(* Program constants *)

GraceMs == 1000
JumpThreshold == 5
ExitSlack == 1

DEFAULT_CONFIG ==
    [enabled |-> TRUE, targetBuffer |-> 5, checkInterval |-> 6000,
     debugLogging |-> FALSE]

VideoIds == {"", "a", "b"}
\* arguments of setBuffer: rejected ones, the default, and the buffer whose
\* threshold is the largest latency
SetBufferArgs == {-1, 5, MaxTime - 1, NonNumber}

----------------------------------------------------------------------------
(* Configuration: loadConfig, updateConfig *)

\* JSON.stringify writes NaN as null
jsonNumber(x) == IF x = NaN THEN JsonNull ELSE x

toJSON(cfg) == [cfg EXCEPT !.targetBuffer = jsonNumber(cfg.targetBuffer)]

\* stored is <<>> when localStorage has no 'liveSyncConfig' item, else the
\* one item: the empty string, a text JSON.parse rejects, or the object it
\* parses to (a record of the keys the text has)
EmptyItem == [text |-> "empty"]
Unparseable == [text |-> "unparseable"]

\* { ...base, ...patch }
spread(base, patch) ==
    [k \in DOMAIN base \cup DOMAIN patch |->
        IF k \in DOMAIN patch THEN patch[k] ELSE base[k]]

\* variant: the parsed object is returned as it is
loadConfigNoDefaults(s) ==
    IF s = <<>> \/ s[1] = EmptyItem THEN DEFAULT_CONFIG
    ELSE IF s[1] = Unparseable THEN DEFAULT_CONFIG
    ELSE s[1]

loadConfig(s) ==
    IF s = <<>> \/ s[1] = EmptyItem THEN DEFAULT_CONFIG
    ELSE IF s[1] = Unparseable THEN DEFAULT_CONFIG
    ELSE spread(DEFAULT_CONFIG, s[1])

----------------------------------------------------------------------------
(* The controller's fields as one record *)

Ctrl ==
    [dvrModeActive |-> dvrModeActive, lastKnownTime |-> lastKnownTime,
     seekStartTime |-> seekStartTime, lastSyncTime |-> lastSyncTime,
     syncCooldown |-> syncCooldown, lastVideoId |-> lastVideoId]

InitCtrl ==
    [dvrModeActive |-> FALSE, lastKnownTime |-> 0, seekStartTime |-> 0,
     lastSyncTime |-> 0, syncCooldown |-> FALSE, lastVideoId |-> NULL]

SetCtrl(c) ==
    /\ dvrModeActive' = c.dvrModeActive
    /\ lastKnownTime' = c.lastKnownTime
    /\ seekStartTime' = c.seekStartTime
    /\ lastSyncTime' = c.lastSyncTime
    /\ syncCooldown' = c.syncCooldown
    /\ lastVideoId' = c.lastVideoId

----------------------------------------------------------------------------
(* Seek classifier *)

onTimeUpdate(c, currentTime) == [c EXCEPT !.lastKnownTime = currentTime]

onSeeking(c) == [c EXCEPT !.seekStartTime = c.lastKnownTime]

\* variant: the grace period also covers exactly GraceMs
inGraceInclusive(t, c) == t - c.lastSyncTime <= GraceMs

inGrace(t, c) == t - c.lastSyncTime < GraceMs

\* variant: the comparison is the other way round
isRewindInverted(jumpBack) == jumpBack < JumpThreshold

\* variant: a jump of exactly JumpThreshold counts as a rewind
isRewindInclusive(jumpBack) == jumpBack >= JumpThreshold

isRewind(jumpBack) == jumpBack > JumpThreshold

\* variant: the jump is measured from lastKnownTime, not from the snapshot
onSeekedNoSnapshot(c, currentTime, t) ==
    IF inGrace(t, c) THEN [c |-> c, path |-> "grace"]
    ELSE LET jumpBack == c.lastKnownTime - currentTime IN
         IF isRewind(jumpBack)
         THEN [c |-> [c EXCEPT !.dvrModeActive = TRUE], path |-> "rewind"]
         ELSE [c |-> c, path |-> "small"]

\* variant: a seek-end that finds no rewind ends DVR mode
onSeekedEndsDvr(c, currentTime, t) ==
    IF inGrace(t, c) THEN [c |-> c, path |-> "grace"]
    ELSE LET jumpBack == c.seekStartTime - currentTime IN
         IF isRewind(jumpBack)
         THEN [c |-> [c EXCEPT !.dvrModeActive = TRUE], path |-> "rewind"]
         ELSE [c |-> [c EXCEPT !.dvrModeActive = FALSE], path |-> "small"]

\* the fields after the handler, and the branch it took
onSeeked(c, currentTime, t) ==
    IF inGrace(t, c) THEN [c |-> c, path |-> "grace"]
    ELSE LET jumpBack == c.seekStartTime - currentTime IN
         IF isRewind(jumpBack)
         THEN [c |-> [c EXCEPT !.dvrModeActive = TRUE], path |-> "rewind"]
         ELSE [c |-> c, path |-> "small"]

----------------------------------------------------------------------------
(* Sync controller *)

NoInfo == [none |-> TRUE, edge |-> 0, latency |-> 0]

\* variant: an edge equal to the position still gives a sample
getLatencyInfoInclusive(edge, current) ==
    IF edge = NoBuffer THEN NoInfo
    ELSE LET latency == edge - current IN
         IF latency >= 0 THEN [none |-> FALSE, edge |-> edge, latency |-> latency]
         ELSE NoInfo

getLatencyInfo(edge, current) ==
    IF edge = NoBuffer THEN NoInfo
    ELSE LET latency == edge - current IN
         IF latency > 0 THEN [none |-> FALSE, edge |-> edge, latency |-> latency]
         ELSE NoInfo

\* variant: the first identifier of the session is recorded without a reset
checkVideoChangeQuietFirst(c, currentId) ==
    IF currentId # "" /\ currentId # c.lastVideoId
    THEN IF c.lastVideoId = NULL THEN [c EXCEPT !.lastVideoId = currentId]
         ELSE [c EXCEPT !.lastVideoId = currentId, !.lastKnownTime = 0,
                        !.dvrModeActive = FALSE]
    ELSE c

checkVideoChange(c, currentId) ==
    IF currentId # "" /\ currentId # c.lastVideoId
    THEN [c EXCEPT !.lastVideoId = currentId, !.lastKnownTime = 0,
                   !.dvrModeActive = FALSE]
    ELSE c

syncThreshold(targetBuffer) == jsAdd(targetBuffer, ExitSlack)

\* variant: the comparison of line 386 inverted
dvrSkipsInverted(c, info, threshold) ==
    c.dvrModeActive /\ jsLe(info.latency, threshold)

\* line 386: the tick returns while DVR mode is active and latency is high
dvrSkips(c, info, threshold) ==
    c.dvrModeActive /\ jsGt(info.latency, threshold)

\* variant: latency exactly at the threshold is not settled
isSettledStrict(info, threshold) == jsLt(info.latency, threshold)

\* line 391: latency settled
isSettled(info, threshold) == jsLe(info.latency, threshold)

\* variant: the seek goes to the edge itself
syncTargetEdge(info, targetBuffer) == info.edge

\* line 401: the position assigned to video.currentTime
syncTarget(info, targetBuffer) == jsSub(info.edge, targetBuffer)

\* what one callback did: the fields it leaves, the positions it assigned to
\* video.currentTime, whether it ended by an exception, the branch it took
Outcome(c, seeks, threw, path) ==
    [c |-> c, seeks |-> seeks, threw |-> threw, path |-> path,
     dvrExit |-> FALSE]

\* the seek branch of lines 399-402
\* variant: the seek is issued without noting its time
syncNowNoStamp(c, info, targetBuffer, t) ==
    LET c2 == [c EXCEPT !.syncCooldown = TRUE]
        target == syncTarget(info, targetBuffer)
    IN  IF target = NaN THEN Outcome(c2, <<>>, TRUE, "threw")
        ELSE Outcome(c2, <<target>>, FALSE, "synced")

syncNow(c, info, targetBuffer, t) ==
    LET c2 == [c EXCEPT !.lastSyncTime = t, !.syncCooldown = TRUE]
        target == syncTarget(info, targetBuffer)
    IN  \* assigning a non-finite value to currentTime raises TypeError
        IF target = NaN THEN Outcome(c2, <<>>, TRUE, "threw")
        ELSE Outcome(c2, <<target>>, FALSE, "synced")

\* variant: the cooldown tick withholds the seek but keeps the flag
syncDecisionKeepsCooldown(c, info, targetBuffer, t) ==
    IF isSettled(info, syncThreshold(targetBuffer))
    THEN Outcome([c EXCEPT !.syncCooldown = FALSE], <<>>, FALSE, "settled")
    ELSE IF c.syncCooldown
    THEN Outcome(c, <<>>, FALSE, "cooldown")
    ELSE syncNow(c, info, targetBuffer, t)

\* variant: a settled tick leaves the cooldown flag as it is
syncDecisionStaleCooldown(c, info, targetBuffer, t) ==
    IF isSettled(info, syncThreshold(targetBuffer))
    THEN Outcome(c, <<>>, FALSE, "settled")
    ELSE IF c.syncCooldown
    THEN Outcome([c EXCEPT !.syncCooldown = FALSE], <<>>, FALSE, "cooldown")
    ELSE syncNow(c, info, targetBuffer, t)

\* variant: no cooldown, every tick with high latency seeks
syncDecisionNoCooldown(c, info, targetBuffer, t) ==
    IF isSettled(info, syncThreshold(targetBuffer))
    THEN Outcome([c EXCEPT !.syncCooldown = FALSE], <<>>, FALSE, "settled")
    ELSE syncNow(c, info, targetBuffer, t)

\* variant: no second seek within the grace period of the last one
syncDecisionGraceGated(c, info, targetBuffer, t) ==
    IF isSettled(info, syncThreshold(targetBuffer))
    THEN Outcome([c EXCEPT !.syncCooldown = FALSE], <<>>, FALSE, "settled")
    ELSE IF c.syncCooldown \/ inGrace(t, c)
    THEN Outcome([c EXCEPT !.syncCooldown = FALSE], <<>>, FALSE, "cooldown")
    ELSE syncNow(c, info, targetBuffer, t)

\* lines 391-402, entered with DVR mode off
syncDecision(c, info, targetBuffer, t) ==
    IF isSettled(info, syncThreshold(targetBuffer))
    THEN Outcome([c EXCEPT !.syncCooldown = FALSE], <<>>, FALSE, "settled")
    ELSE IF c.syncCooldown
    THEN Outcome([c EXCEPT !.syncCooldown = FALSE], <<>>, FALSE, "cooldown")
    ELSE syncNow(c, info, targetBuffer, t)

\* variant: the content-identity check runs after the DVR skip
handleSyncLateRefresh(c, targetBuffer, video, live, currentId, edge, current, t) ==
    IF ~video \/ ~live THEN Outcome(c, <<>>, FALSE, "ineligible")
    ELSE LET c1 == checkVideoChange(c, currentId)
             info == getLatencyInfo(edge, current)
             threshold == syncThreshold(targetBuffer)
         IN  IF info.none THEN Outcome(c1, <<>>, FALSE, "nosample")
             ELSE IF dvrSkips(c, info, threshold)
             THEN Outcome(c1, <<>>, FALSE, "dvrskip")
             ELSE [syncDecision([c1 EXCEPT !.dvrModeActive = FALSE], info,
                                targetBuffer, t)
                   EXCEPT !.dvrExit = c1.dvrModeActive]

handleSync(c, targetBuffer, video, live, currentId, edge, current, t) ==
    IF ~video \/ ~live THEN Outcome(c, <<>>, FALSE, "ineligible")
    ELSE LET c1 == checkVideoChange(c, currentId)
             info == getLatencyInfo(edge, current)
             threshold == syncThreshold(targetBuffer)
         IN  IF info.none THEN Outcome(c1, <<>>, FALSE, "nosample")
             ELSE IF dvrSkips(c1, info, threshold)
             THEN Outcome(c1, <<>>, FALSE, "dvrskip")
             ELSE \* lines 387-388: DVR mode, if active, is left here
                  [syncDecision([c1 EXCEPT !.dvrModeActive = FALSE], info,
                                targetBuffer, t)
                   EXCEPT !.dvrExit = c1.dvrModeActive]

\* variant: a callback with the enabled flag off consumes the cooldown
runSyncLoopConsumes(c, cfg, video, live, currentId, edge, current, t) ==
    IF cfg.enabled
    THEN handleSync(c, cfg.targetBuffer, video, live, currentId, edge, current, t)
    ELSE Outcome([c EXCEPT !.syncCooldown = FALSE], <<>>, FALSE, "disabled")

\* runSyncLoop: one timer callback
runSyncLoop(c, cfg, video, live, currentId, edge, current, t) ==
    IF cfg.enabled
    THEN handleSync(c, cfg.targetBuffer, video, live, currentId, edge, current, t)
    ELSE Outcome(c, <<>>, FALSE, "disabled")

----------------------------------------------------------------------------
(* Control surface *)

updateConfig(cfg, field, value) == [cfg EXCEPT ![field] = value]

isValidBuffer(seconds) == ~(seconds = NonNumber \/ jsLt(seconds, 0))

----------------------------------------------------------------------------
(* Observation records *)

\* the last operation when it was a timer callback ("tick") or a seek-end
\* ("seeked"), "none" after any other step; path: the branch it took;
\* dvrExit: a tick left DVR mode by itself; seeks: the positions it assigned
\* to video.currentTime; dvrReset: the tick's content-identity check cleared
\* an active DVR mode
NoEv ==
    [op |-> "none", path |-> "", dvrExit |-> FALSE, seeks |-> <<>>,
     dvrReset |-> FALSE]

NoHist ==
    [seekLast |-> FALSE, seekBefore |-> FALSE, lowRun |-> 0, lowRunSeeks |-> 0,
     evalSeek |-> FALSE, highRun |-> 0]

Cap2(n) == IF n > 2 THEN 2 ELSE n

----------------------------------------------------------------------------
(* Initial state: the constructor (lines 275-282) has run.  Date.now() is   *)
(* an epoch time, far beyond the grace period after lastSyncTime = 0.       *)

Init ==
    /\ stored = <<>>
    /\ config = loadConfig(stored)
    /\ dvrModeActive = FALSE
    /\ lastKnownTime = 0
    /\ seekStartTime = 0
    /\ lastSyncTime = 0
    /\ syncCooldown = FALSE
    /\ lastVideoId = NULL
    /\ now = 2 * GraceMs
    /\ videoTime \in Times
    /\ seekPhase = "idle"
    /\ loopAlive = TRUE
    /\ ev = NoEv
    /\ hist = NoHist

----------------------------------------------------------------------------
(* Environment: the clock and the video element *)

MaxNow == 2 * GraceMs + MaxClockSteps * GraceMs

\* time passes (one grace period at a time)
Advance ==
    /\ now + GraceMs <= MaxNow
    /\ now' = now + GraceMs
    /\ ev' = NoEv
    /\ UNCHANGED <<config, stored, ctrlVars, videoTime, seekPhase, loopAlive, hist>>

\* playback moves the position forward without a seek
Playback ==
    /\ \E t \in Times : t > videoTime /\ videoTime' = t
    /\ ev' = NoEv
    /\ UNCHANGED <<config, stored, ctrlVars, now, seekPhase, loopAlive, hist>>

\* the viewer drags the scrubber: the position changes, a seek begins
UserSeek ==
    /\ \E t \in Times : t # videoTime /\ videoTime' = t
    /\ seekPhase' = "started"
    /\ ev' = NoEv
    /\ UNCHANGED <<config, stored, ctrlVars, now, loopAlive, hist>>

----------------------------------------------------------------------------
(* Event handlers of the seek classifier *)

TimeUpdate ==
    /\ SetCtrl(onTimeUpdate(Ctrl, videoTime))
    /\ ev' = NoEv
    /\ UNCHANGED <<config, stored, now, videoTime, seekPhase, loopAlive, hist>>

Seeking ==
    /\ seekPhase = "started"
    /\ SetCtrl(onSeeking(Ctrl))
    /\ seekPhase' = "seeking"
    /\ ev' = NoEv
    /\ UNCHANGED <<config, stored, now, videoTime, loopAlive, hist>>

Seeked ==
    /\ seekPhase = "seeking"
    /\ LET out == onSeeked(Ctrl, videoTime, now) IN
        /\ SetCtrl(out.c)
        /\ ev' = [NoEv EXCEPT !.op = "seeked", !.path = out.path]
    /\ seekPhase' = "idle"
    /\ UNCHANGED <<config, stored, now, videoTime, loopAlive, hist>>

----------------------------------------------------------------------------
(* The timer callback *)

\* seekLast: the last tick issued a seek; seekBefore: the tick before it
\* did; lowRun: the number of ticks in a row, up to the last one, that each
\* had a latency sample at or below the threshold; lowRunSeeks: the seeks
\* those ticks issued (both capped at 2); evalSeek: the last tick that
\* reached the latency decision issued a seek; highRun: the place of the last
\* tick in the run of ticks in a row that each found DVR mode off and a
\* latency sample above the threshold, a run that began with syncCooldown
\* false or right after a tick with a sample at or below the threshold
\* (0: not in such a run; places beyond 4 count as 3, 4, 3, ...)
NextPlace(p) == IF p < 4 THEN p + 1 ELSE 3

TickHist(h, n, low, high, cooldown, decided) ==
    [seekLast |-> n > 0,
     seekBefore |-> h.seekLast,
     lowRun |-> IF low THEN Cap2(h.lowRun + 1) ELSE 0,
     lowRunSeeks |-> IF low THEN Cap2(h.lowRunSeeks + n) ELSE 0,
     evalSeek |-> IF decided THEN n > 0 ELSE h.evalSeek,
     highRun |-> IF ~high THEN 0
                 ELSE IF h.highRun > 0 THEN NextPlace(h.highRun)
                 ELSE IF ~cooldown \/ h.lowRun > 0 THEN 1
                 ELSE 0]

\* what one timer callback reads from the page: is there an active video,
\* is it live, the content identifier, the buffered edge.  A value the
\* callback does not read is fixed, so that equal callbacks are equal steps.
TickInputs ==
    IF ~config.enabled
    THEN {[video |-> FALSE, live |-> FALSE, currentId |-> "", edge |-> NoBuffer]}
    ELSE {[video |-> FALSE, live |-> FALSE, currentId |-> "", edge |-> NoBuffer],
          [video |-> TRUE, live |-> FALSE, currentId |-> "", edge |-> NoBuffer]}
         \cup [video : {TRUE}, live : {TRUE}, currentId : VideoIds,
               edge : {NoBuffer} \cup Times]

\* the tick reaches handleSync with an active live video
Eligible(in) == config.enabled /\ in.video /\ in.live

\* the latency probe has a sample: a buffered range whose end is ahead
HasSample(in) == in.edge # NoBuffer /\ in.edge > videoTime

Latency(in) == in.edge - videoTime

\* the tick's threshold, targetBuffer + 1.0
Threshold == config.targetBuffer + 1

\* an eligible tick with a latency sample at or below the threshold
LowSample(in) ==
    Eligible(in) /\ HasSample(in) /\ config.targetBuffer # NaN
    /\ Latency(in) <= Threshold

\* the identifier the tick reads differs from the recorded one
IdChange(in) == in.currentId # "" /\ in.currentId # lastVideoId

\* DVR mode as the tick finds it after its content-identity check
DvrAtEval(in) == dvrModeActive /\ ~IdChange(in)

\* an eligible tick with a latency sample above the threshold
HighSample(in) ==
    Eligible(in) /\ HasSample(in) /\ config.targetBuffer # NaN
    /\ Latency(in) > Threshold

\* the tick reached the latency decision of lines 391-402
Decided(path) == path \in {"settled", "cooldown", "synced", "threw"}

\* one timer callback, but for the history it leaves
TickStep(in) ==
    LET out == runSyncLoop(Ctrl, config, in.video, in.live, in.currentId,
                           in.edge, videoTime, now)
    IN  /\ loopAlive
        /\ SetCtrl(out.c)
        /\ videoTime' = IF out.seeks # <<>> THEN out.seeks[1] ELSE videoTime
        /\ seekPhase' = IF out.seeks # <<>> THEN "started" ELSE seekPhase
        /\ loopAlive' = ~out.threw
        /\ ev' = [op |-> "tick", path |-> out.path, dvrExit |-> out.dvrExit,
                  seeks |-> out.seeks,
                  dvrReset |-> dvrModeActive /\ Eligible(in) /\ IdChange(in)]
        /\ UNCHANGED <<config, stored, now>>

TickWith(in) ==
    /\ TickStep(in)
    /\ hist' = TickHist(hist, Len(ev'.seeks), LowSample(in),
                        HighSample(in) /\ ~DvrAtEval(in), syncCooldown,
                        Decided(ev'.path))

Tick == \E in \in TickInputs : TickWith(in)

----------------------------------------------------------------------------
(* Control surface (window.LiveSync) *)

Configure(field, value) ==
    /\ config' = updateConfig(config, field, value)
    /\ stored' = <<toJSON(config')>>

\* what is outside the controller and its configuration
pageVars == <<now, videoTime, seekPhase, loopAlive>>

\* the bodies of the public methods
\* variant: enable only flips the flag
doEnableKeepsDvr ==
    /\ Configure("enabled", TRUE)
    /\ UNCHANGED <<ctrlVars, pageVars>>

doEnable ==
    /\ Configure("enabled", TRUE)
    /\ dvrModeActive' = FALSE
    /\ UNCHANGED <<lastKnownTime, seekStartTime, lastSyncTime, syncCooldown,
                   lastVideoId, pageVars>>

\* variant: disabling also forgets the cooldown
doDisableClearsCooldown ==
    /\ Configure("enabled", FALSE)
    /\ syncCooldown' = FALSE
    /\ UNCHANGED <<dvrModeActive, lastKnownTime, seekStartTime, lastSyncTime,
                   lastVideoId, pageVars>>

doDisable ==
    /\ Configure("enabled", FALSE)
    /\ UNCHANGED <<ctrlVars, pageVars>>

doSetBuffer(seconds) ==
    /\ IF isValidBuffer(seconds)
       THEN Configure("targetBuffer", seconds)
       ELSE UNCHANGED <<config, stored>>
    /\ UNCHANGED <<ctrlVars, pageVars>>

\* variant: exitDvr toggles DVR mode
doExitDvrToggles ==
    /\ dvrModeActive' = ~dvrModeActive
    /\ UNCHANGED <<config, stored, lastKnownTime, seekStartTime, lastSyncTime,
                   syncCooldown, lastVideoId, pageVars>>

doExitDvr ==
    /\ dvrModeActive' = FALSE
    /\ UNCHANGED <<config, stored, lastKnownTime, seekStartTime, lastSyncTime,
                   syncCooldown, lastVideoId, pageVars>>

doToggleDebug ==
    /\ Configure("debugLogging", ~config.debugLogging)
    /\ UNCHANGED <<ctrlVars, pageVars>>

\* what getStatus returns; JsonNull stands for a currentLatency of null
getStatus(c, cfg, video, live, edge, current) ==
    LET info == IF video THEN getLatencyInfo(edge, current) ELSE NoInfo IN
    [enabled |-> cfg.enabled, dvrMode |-> c.dvrModeActive,
     targetBuffer |-> cfg.targetBuffer, debugLogging |-> cfg.debugLogging,
     currentLatency |-> IF info.none THEN JsonNull ELSE info.latency,
     isLive |-> live]

\* variant: asking for the status leaves DVR mode
doGetStatusExitsDvr ==
    /\ dvrModeActive' = FALSE
    /\ UNCHANGED <<config, stored, lastKnownTime, seekStartTime, lastSyncTime,
                   syncCooldown, lastVideoId, pageVars>>

\* getStatus only reads
doGetStatus == UNCHANGED <<config, stored, ctrlVars, pageVars>>

enable == doEnable /\ ev' = NoEv /\ UNCHANGED hist

disable == doDisable /\ ev' = NoEv /\ UNCHANGED hist

setBuffer ==
    \E seconds \in SetBufferArgs :
        doSetBuffer(seconds) /\ ev' = NoEv /\ UNCHANGED hist

exitDvr == doExitDvr /\ ev' = NoEv /\ UNCHANGED hist

----------------------------------------------------------------------------

Next ==
    \/ Advance
    \/ Playback
    \/ UserSeek
    \/ TimeUpdate
    \/ Seeking
    \/ Seeked
    \/ Tick
    \/ enable
    \/ disable
    \/ setBuffer
    \/ exitDvr

Spec == Init /\ [][Next]_vars

----------------------------------------------------------------------------
(* The whole control surface.  Every public method is an action, setBuffer  *)
(* takes every kind of argument, and a call leaves its name in ev.  The     *)
(* tick history is not kept and the clock stands still: a seek-end is       *)
(* outside the grace period until the first sync and inside it afterwards.  *)

\* arguments of setBuffer: a negative number, a non-number, zero, a positive
\* number and NaN
ApiBufferArgs == {-1, NonNumber, 0, 5, NaN}

\* the record of a call: the method, how it ended, and whether DVR mode was
\* active when it was made
Called(op, path) ==
    [op |-> op, path |-> path, dvrExit |-> dvrModeActive, seeks |-> <<>>,
     dvrReset |-> FALSE]

ApiTick == \E in \in TickInputs : TickStep(in) /\ UNCHANGED hist

ApiEnable == doEnable /\ ev' = Called("enable", "") /\ UNCHANGED hist

ApiDisable == doDisable /\ ev' = Called("disable", "") /\ UNCHANGED hist

ApiSetBuffer ==
    \E seconds \in ApiBufferArgs :
        /\ doSetBuffer(seconds)
        /\ ev' = Called("setBuffer",
                        IF isValidBuffer(seconds) THEN "accepted" ELSE "rejected")
        /\ UNCHANGED hist

ApiExitDvr == doExitDvr /\ ev' = Called("exitDvr", "") /\ UNCHANGED hist

ApiToggleDebug ==
    doToggleDebug /\ ev' = Called("toggleDebug", "") /\ UNCHANGED hist

ApiGetStatus == doGetStatus /\ ev' = Called("getStatus", "") /\ UNCHANGED hist

ApiNext ==
    \/ Playback
    \/ UserSeek
    \/ TimeUpdate
    \/ Seeking
    \/ Seeked
    \/ ApiTick
    \/ ApiEnable
    \/ ApiDisable
    \/ ApiSetBuffer
    \/ ApiExitDvr
    \/ ApiToggleDebug
    \/ ApiGetStatus

ApiSpec == Init /\ [][ApiNext]_vars

----------------------------------------------------------------------------
(* Page load and the read-only helpers.  The constructor runs over every    *)
(* kind of stored item, and the latency probe and the live-content          *)
(* predicate are applied to enumerated page states; ev holds the call, its  *)
(* arguments and what it returned.                                          *)

\* what localStorage holds when the page loads
StoredItems ==
    {<<>>, <<EmptyItem>>, <<Unparseable>>,
     <<[targetBuffer |-> 3]>>,
     <<[enabled |-> FALSE]>>,
     <<[enabled |-> FALSE, debugLogging |-> TRUE]>>,
     <<[checkInterval |-> 1000, targetBuffer |-> 0]>>,
     <<[enabled |-> FALSE, targetBuffer |-> 2, checkInterval |-> 3000,
        debugLogging |-> TRUE]>>}

LiveDuration == 21600
Infinity == 1000000
Hosts == {"www.youtube.com", "tv.youtube.com", "other"}
Durations == {0, LiveDuration, LiveDuration + 1, Infinity, NaN}

\* the player element, when there is one to ask
getYTPlayer(host, hasPlayer) == host = "www.youtube.com" /\ hasPlayer

\* variant: a duration of exactly LiveDuration counts as live
isLiveContentInclusive(host, hasPlayer, playerIsLive, video, duration) ==
    IF getYTPlayer(host, hasPlayer) THEN playerIsLive
    ELSE host = "tv.youtube.com" /\ video /\ ~jsLt(duration, LiveDuration)

isLiveContent(host, hasPlayer, playerIsLive, video, duration) ==
    IF getYTPlayer(host, hasPlayer) THEN playerIsLive
    ELSE host = "tv.youtube.com" /\ video /\ jsGt(duration, LiveDuration)

ProbeInit ==
    /\ stored \in StoredItems
    /\ config = loadConfig(stored)
    /\ dvrModeActive = FALSE
    /\ lastKnownTime = 0
    /\ seekStartTime = 0
    /\ lastSyncTime = 0
    /\ syncCooldown = FALSE
    /\ lastVideoId = NULL
    /\ now = 2 * GraceMs
    /\ videoTime = 0
    /\ seekPhase = "idle"
    /\ loopAlive = TRUE
    /\ ev = NoEv
    /\ hist = NoHist

ProbeLatency ==
    /\ \E edge \in {NoBuffer} \cup 0..MaxTime, current \in 0..MaxTime :
        ev' = [op |-> "getLatencyInfo", edge |-> edge, current |-> current,
               result |-> getLatencyInfo(edge, current)]
    /\ UNCHANGED <<config, stored, ctrlVars, pageVars, hist>>

ProbeLive ==
    /\ \E host \in Hosts, hasPlayer \in BOOLEAN, playerIsLive \in BOOLEAN,
          video \in BOOLEAN, duration \in Durations :
        ev' = [op |-> "isLiveContent", host |-> host, hasPlayer |-> hasPlayer,
               playerIsLive |-> playerIsLive, video |-> video,
               duration |-> duration,
               result |-> isLiveContent(host, hasPlayer, playerIsLive, video,
                                        duration)]
    /\ UNCHANGED <<config, stored, ctrlVars, pageVars, hist>>

ProbeNext ==
    \/ ProbeLatency
    \/ ProbeLive

ProbeSpec == ProbeInit /\ [][ProbeNext]_vars

----------------------------------------------------------------------------
(* The seek classifier against the ticks.  The configuration is the         *)
(* default one; hist follows the seek in flight, and a seek-end leaves in   *)
(* ev what is known about the seek it ended.                                *)

\* own: the seek in flight was issued by a tick; ownOk: lastKnownTime was not
\* ahead of the position when that tick issued it; ownAt: Date.now() of that
\* tick; snap: lastKnownTime when the last seek-start was delivered;
\* updated: a timeupdate was delivered after that seek-start; stale: a
\* content change was detected after that seek-start; high: what the last
\* ticks did that found DVR mode off and a latency sample above the
\* threshold ("none": the last tick was not such a tick)
NoSeekHist ==
    [own |-> FALSE, ownOk |-> FALSE, ownAt |-> 0, snap |-> 0,
     updated |-> FALSE, stale |-> FALSE, high |-> "none"]

\* the history once the seek in flight is over or replaced
SeekOver(h) == [NoSeekHist EXCEPT !.snap = h.snap, !.high = h.high]

\* high after a tick: "seek" or "pass" (no seek) for a tick with high
\* latency and DVR mode off, "seekAfterPass" and "passAfterPass" when the
\* tick before it was such a tick too and issued no seek
HighAfter(h, high, n) ==
    IF ~high THEN "none"
    ELSE IF h.high \in {"pass", "passAfterPass"}
    THEN (IF n > 0 THEN "seekAfterPass" ELSE "passAfterPass")
    ELSE (IF n > 0 THEN "seek" ELSE "pass")

SeekInit ==
    /\ stored = <<>>
    /\ config = loadConfig(stored)
    /\ dvrModeActive = FALSE
    /\ lastKnownTime = 0
    /\ seekStartTime = 0
    /\ lastSyncTime = 0
    /\ syncCooldown = FALSE
    /\ lastVideoId = NULL
    /\ now = 2 * GraceMs
    /\ videoTime \in Times
    /\ seekPhase = "idle"
    /\ loopAlive = TRUE
    /\ ev = NoEv
    /\ hist = NoSeekHist

SeekUserSeek ==
    /\ \E t \in Times : t # videoTime /\ videoTime' = t
    /\ seekPhase' = "started"
    /\ ev' = NoEv
    /\ hist' = SeekOver(hist)
    /\ UNCHANGED <<config, stored, ctrlVars, now, loopAlive>>

SeekTimeUpdate ==
    /\ SetCtrl(onTimeUpdate(Ctrl, videoTime))
    /\ ev' = NoEv
    /\ hist' = [hist EXCEPT !.updated = (seekPhase = "seeking")]
    /\ UNCHANGED <<config, stored, now, videoTime, seekPhase, loopAlive>>

SeekSeeking ==
    /\ seekPhase = "started"
    /\ SetCtrl(onSeeking(Ctrl))
    /\ seekPhase' = "seeking"
    /\ ev' = NoEv
    /\ hist' = [hist EXCEPT !.snap = lastKnownTime, !.updated = FALSE,
                            !.stale = FALSE]
    /\ UNCHANGED <<config, stored, now, videoTime, loopAlive>>

SeekSeeked ==
    /\ seekPhase = "seeking"
    /\ LET out == onSeeked(Ctrl, videoTime, now) IN
        /\ SetCtrl(out.c)
        /\ ev' = [op |-> "seeked", path |-> out.path, own |-> hist.own,
                  ownOk |-> hist.ownOk, ownAt |-> hist.ownAt,
                  snap |-> hist.snap, updated |-> hist.updated,
                  stale |-> hist.stale, dvrBefore |-> dvrModeActive]
    /\ seekPhase' = "idle"
    /\ hist' = SeekOver(hist)
    /\ UNCHANGED <<config, stored, now, videoTime, loopAlive>>

SeekTick ==
    \E in \in TickInputs :
        /\ TickStep(in)
        /\ LET high == HighAfter(hist, HighSample(in) /\ ~DvrAtEval(in),
                                 Len(ev'.seeks))
           IN hist' = IF ev'.seeks # <<>>
                   THEN [NoSeekHist EXCEPT !.own = TRUE,
                                           !.ownOk = (lastKnownTime' <= videoTime),
                                           !.ownAt = now,
                                           !.snap = hist.snap,
                                           !.high = high]
                   ELSE [hist EXCEPT !.stale =
                            \/ hist.stale
                            \/ seekPhase = "seeking" /\ Eligible(in) /\ IdChange(in),
                                     !.high = high]

SeekNext ==
    \/ Advance
    \/ Playback
    \/ SeekUserSeek
    \/ SeekTimeUpdate
    \/ SeekSeeking
    \/ SeekSeeked
    \/ SeekTick

SeekSpec == SeekInit /\ [][SeekNext]_vars

----------------------------------------------------------------------------
(* The builds of the timer callback side by side.  The source file holds    *)
(* two versions of the class (lines 1-246 and 247-452) and dist/ the built  *)
(* script.  A tick runs the second version, as everywhere in this model,    *)
(* and leaves in ev what the other two would have done from the same state  *)
(* and page.                                                                *)

\* first version, lines 103-112
getLatencyInfoFirst(edge, current) ==
    IF edge = NoBuffer THEN NoInfo
    ELSE IF edge <= current THEN NoInfo
    ELSE [none |-> FALSE, edge |-> edge, latency |-> edge - current]

\* first version, lines 137-147
checkVideoChangeFirst(c, currentId) ==
    IF currentId # "" /\ currentId # c.lastVideoId
    THEN LET c1 == [c EXCEPT !.lastVideoId = currentId, !.lastKnownTime = 0]
         IN  IF c1.dvrModeActive THEN [c1 EXCEPT !.dvrModeActive = FALSE]
             ELSE c1
    ELSE c

\* first version, lines 149-189: the DVR branch probes the latency, and the
\* code after it probes again
handleSyncFirst(c, targetBuffer, video, live, currentId, edge, current, t) ==
    IF ~video \/ ~live THEN Outcome(c, <<>>, FALSE, "ineligible")
    ELSE LET c1 == checkVideoChangeFirst(c, currentId)
             dvrInfo == getLatencyInfoFirst(edge, current)
             exits == /\ ~dvrInfo.none
                      /\ jsLe(dvrInfo.latency, jsAdd(targetBuffer, 1))
         IN  IF c1.dvrModeActive /\ ~exits
             THEN Outcome(c1, <<>>, FALSE, "dvrskip")
             ELSE LET c2 == [c1 EXCEPT !.dvrModeActive = FALSE]
                      info == getLatencyInfoFirst(edge, current)
                  IN  IF info.none THEN Outcome(c2, <<>>, FALSE, "nosample")
                      ELSE IF jsGt(info.latency, jsAdd(targetBuffer, 1))
                      THEN IF c2.syncCooldown
                           THEN Outcome([c2 EXCEPT !.syncCooldown = FALSE],
                                        <<>>, FALSE, "cooldown")
                           ELSE LET target == jsSub(info.edge, targetBuffer) IN
                                IF target = NaN
                                THEN Outcome([c2 EXCEPT !.lastSyncTime = t,
                                                        !.syncCooldown = TRUE],
                                             <<>>, TRUE, "threw")
                                ELSE Outcome([c2 EXCEPT !.lastSyncTime = t,
                                                        !.syncCooldown = TRUE],
                                             <<target>>, FALSE, "synced")
                      ELSE Outcome([c2 EXCEPT !.syncCooldown = FALSE], <<>>,
                                   FALSE, "settled")

\* first version, lines 191-196
runSyncLoopFirst(c, cfg, video, live, currentId, edge, current, t) ==
    IF cfg.enabled
    THEN handleSyncFirst(c, cfg.targetBuffer, video, live, currentId, edge,
                         current, t)
    ELSE Outcome(c, <<>>, FALSE, "disabled")

\* dist/yt-actual-live.user.js, lines 98-104
getLatencyInfoDist(edge, current) ==
    IF edge = NoBuffer THEN NoInfo
    ELSE LET latency == edge - current IN
         IF latency > 0 THEN [none |-> FALSE, edge |-> edge, latency |-> latency]
         ELSE NoInfo

\* dist, lines 120-127
checkVideoChangeDist(c, currentId) ==
    IF currentId # "" /\ currentId # c.lastVideoId
    THEN [c EXCEPT !.lastVideoId = currentId, !.lastKnownTime = 0,
                   !.dvrModeActive = FALSE]
    ELSE c

\* dist, lines 128-155
handleSyncDist(c, targetBuffer, video, live, currentId, edge, current, t) ==
    IF ~video \/ ~live THEN Outcome(c, <<>>, FALSE, "ineligible")
    ELSE LET c1 == checkVideoChangeDist(c, currentId)
             info == getLatencyInfoDist(edge, current)
             threshold == jsAdd(targetBuffer, 1)
         IN  IF info.none THEN Outcome(c1, <<>>, FALSE, "nosample")
             ELSE IF c1.dvrModeActive /\ jsGt(info.latency, threshold)
             THEN Outcome(c1, <<>>, FALSE, "dvrskip")
             ELSE LET c2 == [c1 EXCEPT !.dvrModeActive = FALSE] IN
                  IF jsLe(info.latency, threshold)
                  THEN Outcome([c2 EXCEPT !.syncCooldown = FALSE], <<>>, FALSE,
                               "settled")
                  ELSE IF c2.syncCooldown
                  THEN Outcome([c2 EXCEPT !.syncCooldown = FALSE], <<>>, FALSE,
                               "cooldown")
                  ELSE LET target == jsSub(info.edge, targetBuffer) IN
                       IF target = NaN
                       THEN Outcome([c2 EXCEPT !.lastSyncTime = t,
                                               !.syncCooldown = TRUE],
                                    <<>>, TRUE, "threw")
                       ELSE Outcome([c2 EXCEPT !.lastSyncTime = t,
                                               !.syncCooldown = TRUE],
                                    <<target>>, FALSE, "synced")

\* dist, lines 156-161
runSyncLoopDist(c, cfg, video, live, currentId, edge, current, t) ==
    IF cfg.enabled
    THEN handleSyncDist(c, cfg.targetBuffer, video, live, currentId, edge,
                        current, t)
    ELSE Outcome(c, <<>>, FALSE, "disabled")

\* what a build did, as far as the controller and the video can tell
Effect(out) == [c |-> out.c, seeks |-> out.seeks, threw |-> out.threw]

\* the controllers that differ from c in lastKnownTime, seekStartTime or
\* lastSyncTime only
Twins(c) ==
    {[c EXCEPT !.lastKnownTime = a, !.seekStartTime = b, !.lastSyncTime = d] :
        a \in {0, MaxTime}, b \in {0, MaxTime}, d \in {0, now}}

\* the seek decision and the two flags at the end of the tick
Decision(out) ==
    [seeks |-> out.seeks, threw |-> out.threw,
     dvrModeActive |-> out.c.dvrModeActive,
     syncCooldown |-> out.c.syncCooldown]

\* one timer callback; ev: first, dist: the effect of the other two builds;
\* twins: every controller that differs in lastKnownTime, seekStartTime or
\* lastSyncTime only decides as this one; firstId: the tick found
\* lastVideoId null and a content identifier; dvrBefore: DVR mode before it
DiffStep(in) ==
    LET out == runSyncLoop(Ctrl, config, in.video, in.live, in.currentId,
                           in.edge, videoTime, now)
        first == runSyncLoopFirst(Ctrl, config, in.video, in.live,
                                  in.currentId, in.edge, videoTime, now)
        dist == runSyncLoopDist(Ctrl, config, in.video, in.live, in.currentId,
                                in.edge, videoTime, now)
    IN  /\ loopAlive
        /\ SetCtrl(out.c)
        /\ videoTime' = IF out.seeks # <<>> THEN out.seeks[1] ELSE videoTime
        /\ seekPhase' = IF out.seeks # <<>> THEN "started" ELSE seekPhase
        /\ loopAlive' = ~out.threw
        /\ ev' = [op |-> "tick", path |-> out.path, dvrExit |-> out.dvrExit,
                  seeks |-> out.seeks,
                  dvrReset |-> dvrModeActive /\ Eligible(in) /\ IdChange(in),
                  second |-> Effect(out), first |-> Effect(first),
                  dist |-> Effect(dist),
                  twins |-> \A c2 \in Twins(Ctrl) :
                      Decision(runSyncLoop(c2, config, in.video, in.live,
                                           in.currentId, in.edge, videoTime,
                                           now)) = Decision(out),
                  firstId |-> Eligible(in) /\ lastVideoId = NULL
                              /\ in.currentId # "",
                  dvrBefore |-> dvrModeActive]
        /\ UNCHANGED <<config, stored, now, hist>>

DiffTick == \E in \in TickInputs : DiffStep(in)

DiffSetBuffer ==
    /\ \E seconds \in ApiBufferArgs : doSetBuffer(seconds)
    /\ ev' = NoEv
    /\ UNCHANGED hist

DiffNext ==
    \/ Advance
    \/ Playback
    \/ UserSeek
    \/ TimeUpdate
    \/ Seeking
    \/ Seeked
    \/ DiffSetBuffer
    \/ DiffTick

DiffSpec == Init /\ [][DiffNext]_vars

----------------------------------------------------------------------------
(* The script body (lines 249-451) run again and again in one page: in the  *)
(* top window and in frames.  hist holds the top window: the flag           *)
(* _liveSyncInitialized, the controllers constructed, the listeners they    *)
(* attached and the timer chains they started, and the number of runs.      *)

NoWindow ==
    [initialized |-> FALSE, controllers |-> 0, listeners |-> 0, loops |-> 0]

\* variant: the script body without the guard of line 253
runScriptNoFlag(w, top) ==
    IF ~top THEN w
    ELSE [initialized |-> TRUE, controllers |-> w.controllers + 1,
          listeners |-> w.listeners + 3, loops |-> w.loops + 1]

\* the script body: lines 252-254, then the constructor (lines 275-282) by
\* line 451
runScript(w, top) ==
    IF ~top THEN w
    ELSE IF w.initialized THEN w
    ELSE [initialized |-> TRUE, controllers |-> w.controllers + 1,
          listeners |-> w.listeners + 3, loops |-> w.loops + 1]

BootInit ==
    /\ stored = <<>>
    /\ config = loadConfig(stored)
    /\ dvrModeActive = FALSE
    /\ lastKnownTime = 0
    /\ seekStartTime = 0
    /\ lastSyncTime = 0
    /\ syncCooldown = FALSE
    /\ lastVideoId = NULL
    /\ now = 2 * GraceMs
    /\ videoTime \in Times
    /\ seekPhase = "idle"
    /\ loopAlive = TRUE
    /\ ev = NoEv
    /\ hist = [window |-> NoWindow, topRuns |-> 0, frameRuns |-> 0]

RunScript ==
    /\ \E top \in BOOLEAN :
        /\ IF top THEN hist.topRuns < MaxRuns ELSE hist.frameRuns < MaxRuns
        /\ hist' = [window |-> runScript(hist.window, top),
                    topRuns |-> hist.topRuns + (IF top THEN 1 ELSE 0),
                    frameRuns |-> hist.frameRuns + (IF top THEN 0 ELSE 1)]
        /\ ev' = [NoEv EXCEPT !.op = "script"]
    /\ UNCHANGED <<config, stored, ctrlVars, pageVars>>

\* a timer chain that a constructor started fires
BootTick ==
    /\ hist.window.loops > 0
    /\ \E in \in TickInputs : TickStep(in)
    /\ UNCHANGED hist

BootNext ==
    \/ RunScript
    \/ Playback
    \/ BootTick

BootSpec == BootInit /\ [][BootNext]_vars

----------------------------------------------------------------------------
(* Properties.  A property of one operation is an action property: it       *)
(* relates the state before a step of that operation to the state after.    *)

\* the step is a timer callback (every TickWith step is one)
IsTick == ev'.op = "tick"

\* C1: an eligible tick with latency > targetBuffer + 1.0, DVR mode off (at
\* its latency decision) and syncCooldown = false sets lastSyncTime to the
\* current time, sets syncCooldown and issues exactly one seek, to
\* edge - targetBuffer.
C1_SyncTick ==
    [][IsTick => \A in \in TickInputs :
        (~syncCooldown /\ HighSample(in) /\ ~DvrAtEval(in))
        => \/ /\ lastSyncTime' = now
              /\ syncCooldown'
              /\ ev'.seeks = <<in.edge - config.targetBuffer>>
              /\ videoTime' = in.edge - config.targetBuffer
           \/ ~TickWith(in)]_vars

C1_Witness ==
    /\ ev.op = "tick" /\ ev.path = "synced"
    /\ Len(ev.seeks) = 1 /\ videoTime = ev.seeks[1]
    /\ syncCooldown /\ lastSyncTime = now

\* C2: a seek-end at least 1000 ms after the last sync whose position is
\* more than 5 s behind seekStartTime leaves dvrModeActive = true, whatever
\* it was before.
C2_RewindActivates ==
    [][(Seeked /\ now - lastSyncTime >= 1000 /\ seekStartTime - videoTime > 5)
       => dvrModeActive']_vars

C2_Witness ==
    /\ ev.op = "seeked" /\ ev.path = "rewind"
    /\ now - lastSyncTime >= 1000 /\ seekStartTime - videoTime > 5
    /\ dvrModeActive

\* C3: a seek-end outside the grace period whose backward jump is at most
\* 5 s (exactly 5, smaller, zero or forward) leaves dvrModeActive as it was.
C3_SmallJumpKeeps ==
    [][(Seeked /\ now - lastSyncTime >= 1000 /\ seekStartTime - videoTime <= 5)
       => dvrModeActive' = dvrModeActive]_vars

C3_Witness ==
    /\ ev.op = "seeked" /\ ev.path = "small"
    /\ now - lastSyncTime >= 1000 /\ seekStartTime - videoTime = 5
    /\ ~dvrModeActive

\* C4: a seek-end less than 1000 ms after the last sync changes no field of
\* the controller, whatever the jump; at exactly 1000 ms the jump rule
\* applies.
C4_GracePeriod ==
    [][/\ (Seeked /\ now - lastSyncTime < 1000) => UNCHANGED ctrlVars
       /\ (Seeked /\ now - lastSyncTime = 1000)
          => dvrModeActive' = (dvrModeActive \/ seekStartTime - videoTime > 5)
      ]_vars

C4_Witness ==
    /\ ev.op = "seeked" /\ ev.path = "grace"
    /\ now - lastSyncTime < 1000 /\ seekStartTime - videoTime > 5
    /\ ~dvrModeActive

\* C5: a tick that finds DVR mode active and a latency sample above
\* targetBuffer + 1.0 stays in DVR mode, issues no seek and leaves
\* syncCooldown and lastSyncTime as they were, whatever syncCooldown is.
C5_DvrSkips ==
    [][IsTick => \A in \in TickInputs :
        (HighSample(in) /\ DvrAtEval(in))
        => \/ /\ dvrModeActive'
              /\ ev'.seeks = <<>>
              /\ videoTime' = videoTime
              /\ syncCooldown' = syncCooldown
              /\ lastSyncTime' = lastSyncTime
           \/ ~TickWith(in)]_vars

C5_Witness ==
    /\ ev.op = "tick" /\ ev.path = "dvrskip" /\ ev.seeks = <<>>
    /\ dvrModeActive /\ syncCooldown

\* C6: a tick that finds DVR mode active and a latency sample at or below
\* targetBuffer + 1.0 ends with dvrModeActive = false and
\* syncCooldown = false and issues no seek.
C6_DvrAutoExit ==
    [][IsTick => \A in \in TickInputs :
        (LowSample(in) /\ DvrAtEval(in))
        => \/ /\ ~dvrModeActive'
              /\ ~syncCooldown'
              /\ ev'.seeks = <<>>
              /\ videoTime' = videoTime
           \/ ~TickWith(in)]_vars

C6_Witness ==
    /\ ev.op = "tick" /\ ev.dvrExit /\ ev.path = "settled" /\ ev.seeks = <<>>
    /\ ~dvrModeActive /\ ~syncCooldown

\* an eligible tick whose latency probe has no sample
NoSample(in) == Eligible(in) /\ ~HasSample(in)

\* C7 as claimed: a tick without a latency sample issues no seek and alters
\* neither syncCooldown nor dvrModeActive.
C7_NoSampleKeepsDvr ==
    [][IsTick => \A in \in TickInputs :
        (NoSample(in) /\ TickWith(in))
        => /\ ev'.seeks = <<>>
           /\ syncCooldown' = syncCooldown
           /\ dvrModeActive' = dvrModeActive]_vars

\* C7: a tick without a latency sample issues no seek and does not alter
\* syncCooldown; it leaves dvrModeActive as it was unless its
\* content-identity check saw a new identifier, which clears it.
C7_NoSample ==
    [][IsTick => \A in \in TickInputs :
        NoSample(in)
        => \/ /\ ev'.seeks = <<>>
              /\ videoTime' = videoTime
              /\ syncCooldown' = syncCooldown
              /\ lastSyncTime' = lastSyncTime
              /\ dvrModeActive' = (dvrModeActive /\ ~IdChange(in))
           \/ ~TickWith(in)]_vars

C7_Witness ==
    /\ ev.op = "tick" /\ ev.path = "nosample" /\ ev.seeks = <<>>
    /\ dvrModeActive

\* C8: a tick with DVR mode off, a latency sample above targetBuffer + 1.0
\* and syncCooldown = true clears syncCooldown, issues no seek and leaves
\* lastSyncTime as it was.
C8_CooldownTick ==
    [][IsTick => \A in \in TickInputs :
        (syncCooldown /\ HighSample(in) /\ ~DvrAtEval(in))
        => \/ /\ ~syncCooldown'
              /\ ev'.seeks = <<>>
              /\ videoTime' = videoTime
              /\ lastSyncTime' = lastSyncTime
           \/ ~TickWith(in)]_vars

C8_Witness ==
    /\ ev.op = "tick" /\ ev.path = "cooldown" /\ ev.seeks = <<>>
    /\ ~syncCooldown /\ ~dvrModeActive

\* C9: the ticks of any run of consecutive ticks that each have a latency
\* sample at or below targetBuffer + 1.0 issue at most one seek in total,
\* and each of them ends with syncCooldown = false.
C9_SettledRun ==
    /\ hist.lowRunSeeks <= 1
    /\ (ev.op = "tick" /\ hist.lowRun >= 1) => ~syncCooldown

C9_Witness ==
    /\ ev.op = "tick" /\ hist.lowRun = 2 /\ hist.lowRunSeeks = 0
    /\ ~syncCooldown

\* C10: no two consecutive ticks both issue a seek, whatever happens
\* between them.
C10_NoOscillation == ~(hist.seekBefore /\ hist.seekLast)

C10_Witness ==
    /\ ev.op = "tick" /\ ev.path = "cooldown"
    /\ hist.seekBefore /\ ~hist.seekLast

\* an eligible tick that reaches the latency decision of lines 391-402: it
\* has a latency sample and is not skipped for DVR mode
ReachesDecision(in) ==
    /\ Eligible(in) /\ HasSample(in)
    /\ ~(DvrAtEval(in) /\ jsGt(Latency(in), syncThreshold(config.targetBuffer)))

\* C11 as claimed: the tick right after a tick that issued a seek (and set
\* syncCooldown) ends with syncCooldown = false, whatever it observes.
C11_NextTickClears == (ev.op = "tick" /\ hist.seekBefore) => ~syncCooldown

\* C11: after a tick that set syncCooldown, the next tick that reaches the
\* latency decision ends with syncCooldown = false, whether its latency is
\* high or low; a tick before it that is disabled, not live, without a
\* latency sample or skipped in DVR mode leaves syncCooldown true.
C11_NextDecisionClears ==
    [][IsTick => \A in \in TickInputs :
        hist.evalSeek
        => \/ /\ syncCooldown' = ~ReachesDecision(in)
              /\ ev'.seeks = <<>>
           \/ ~TickWith(in)]_vars

C11_Witness ==
    /\ ev.op = "tick" /\ ev.path = "disabled"
    /\ hist.seekBefore /\ hist.evalSeek /\ syncCooldown

\* C12 as claimed: a tick with DVR mode off and latency above
\* targetBuffer + 1.0 that is not the tick right after a seek-issuing tick
\* issues a seek.
C12_SeeksUnlessJustSought ==
    [][IsTick => \A in \in TickInputs :
        (~hist.seekLast /\ HighSample(in) /\ ~DvrAtEval(in) /\ TickWith(in))
        => ev'.seeks # <<>>]_vars

\* C12: a tick with DVR mode off and latency above targetBuffer + 1.0
\* issues a seek unless it is the first tick to reach the latency decision
\* since a seek-issuing tick (ticks that do not reach the decision do not
\* consume the cooldown).
C12_NoStaleCooldown ==
    [][IsTick => \A in \in TickInputs :
        (~hist.evalSeek /\ HighSample(in) /\ ~DvrAtEval(in))
        => \/ ev'.seeks = <<in.edge - config.targetBuffer>>
           \/ ~TickWith(in)]_vars

C12_Witness ==
    /\ ev.op = "tick" /\ ev.path = "synced" /\ Len(ev.seeks) = 1
    /\ hist.highRun = 3 /\ ~hist.seekBefore

\* C13: in a run of ticks that each find DVR mode off and a latency sample
\* above targetBuffer + 1.0, begun with syncCooldown = false or right after
\* a tick with a sample at or below the threshold, the 1st, 3rd, ... ticks
\* issue a seek and the 2nd, 4th, ... do not; a tick with a sample at or
\* below the threshold issues none.
C13_AlternatingSeeks ==
    /\ hist.highRun \in {1, 3} => hist.seekLast
    /\ hist.highRun \in {2, 4} => ~hist.seekLast
    /\ hist.lowRun > 0 => ~hist.seekLast

C13_Witness ==
    /\ ev.op = "tick" /\ hist.highRun = 4
    /\ ~hist.seekLast /\ hist.seekBefore /\ ~syncCooldown

\* C14: a tick that finds DVR mode active (after its content-identity
\* check) issues no seek, whether it stays in DVR mode or leaves it; a tick
\* that issues a seek found DVR mode off and ends with it off.
C14_DvrSuppressesSeeks ==
    [][IsTick => \A in \in TickInputs :
        (DvrAtEval(in) \/ ev'.seeks # <<>>)
        => \/ /\ DvrAtEval(in) => (ev'.seeks = <<>> /\ videoTime' = videoTime)
              /\ ev'.seeks # <<>> => (~DvrAtEval(in) /\ ~dvrModeActive')
           \/ ~TickWith(in)]_vars

C14_Witness ==
    /\ ev.op = "tick" /\ ev.path = "dvrskip" /\ ev.seeks = <<>>
    /\ dvrModeActive /\ ~syncCooldown

\* C16: an eligible tick that reads an identifier different from
\* lastVideoId records it, resets lastKnownTime to 0 and clears
\* dvrModeActive before the latency decision: with a latency sample above
\* targetBuffer + 1.0 it seeks unless syncCooldown withholds, whatever
\* dvrModeActive was.
C16_RefreshBeforeDecision ==
    [][IsTick => \A in \in TickInputs :
        (Eligible(in) /\ IdChange(in))
        => \/ /\ lastVideoId' = in.currentId
              /\ lastKnownTime' = 0
              /\ ~dvrModeActive'
              /\ ~ev'.dvrExit
              /\ (HighSample(in) /\ ~syncCooldown)
                 => ev'.seeks = <<in.edge - config.targetBuffer>>
              /\ (HighSample(in) /\ syncCooldown)
                 => (ev'.seeks = <<>> /\ ~syncCooldown')
           \/ ~TickWith(in)]_vars

C16_Witness ==
    /\ ev.op = "tick" /\ ev.dvrReset /\ ev.path = "synced"
    /\ Len(ev.seeks) = 1 /\ ~dvrModeActive /\ lastKnownTime = 0

\* C20: a tick with the enabled flag false, no active video or a video that
\* is not live issues no seek and changes no field of the controller, nor
\* the configuration.
C20_IneligibleTickNoOp ==
    [][IsTick => \A in \in TickInputs :
        ~Eligible(in)
        => \/ /\ UNCHANGED <<ctrlVars, config, stored, videoTime, seekPhase>>
              /\ ev'.seeks = <<>>
              /\ loopAlive'
           \/ ~TickWith(in)]_vars

C20_Witness ==
    /\ ev.op = "tick" /\ ev.path = "disabled" /\ ev.seeks = <<>>
    /\ ~config.enabled /\ dvrModeActive /\ syncCooldown /\ lastVideoId # NULL

\* the tick's latency sample is at or below targetBuffer + 1.0
SettledSample(in) ==
    HasSample(in) /\ jsLe(Latency(in), syncThreshold(config.targetBuffer))

\* C15 as claimed: dvrModeActive turns true only in a seek-end outside the
\* grace period with a backward jump of more than 5 s, and turns false only
\* in a tick whose latency sample is at or below targetBuffer + 1.0, in a
\* tick that detects a new content identifier, in enable() or in exitDvr().
C15_DvrTransitions ==
    [][/\ (~dvrModeActive /\ dvrModeActive')
          => (Seeked /\ now - lastSyncTime >= 1000
                     /\ seekStartTime - videoTime > 5)
       /\ (dvrModeActive /\ ~dvrModeActive')
          => \/ ApiEnable
             \/ ApiExitDvr
             \/ \E in \in TickInputs :
                    /\ TickStep(in) /\ Eligible(in)
                    /\ IdChange(in) \/ SettledSample(in)]_vars

\* seconds is a number that is not negative
IsBufferValue(seconds) == seconds \notin {NonNumber, NaN} /\ seconds >= 0

\* C17 as claimed: setBuffer(v) sets targetBuffer, in memory and in the
\* stored configuration, when v is a number >= 0 (zero included); for a
\* negative number, a non-number or NaN it changes nothing.
C17_SetBufferValidates ==
    [][\A seconds \in ApiBufferArgs :
        (ev'.op = "setBuffer" /\ doSetBuffer(seconds))
        => IF IsBufferValue(seconds)
           THEN /\ config' = [config EXCEPT !.targetBuffer = seconds]
                /\ stored' = <<config'>>
           ELSE UNCHANGED <<config, stored, ctrlVars, pageVars>>]_vars

\* C18: enable() sets the enabled flag and clears dvrModeActive; disable()
\* clears the enabled flag and leaves dvrModeActive as it was; neither
\* changes syncCooldown, lastSyncTime, lastKnownTime, seekStartTime or
\* targetBuffer.
C18_EnableDisable ==
    [][/\ ApiEnable => (config'.enabled /\ ~dvrModeActive')
       /\ ApiDisable => (~config'.enabled /\ dvrModeActive' = dvrModeActive)
       /\ (ApiEnable \/ ApiDisable)
          => /\ UNCHANGED <<syncCooldown, lastSyncTime, lastKnownTime,
                            seekStartTime>>
             /\ config'.targetBuffer = config.targetBuffer]_vars

C18_Witness ==
    /\ ev.op = "enable" /\ ev.dvrExit
    /\ config.enabled /\ ~dvrModeActive /\ seekStartTime > 0

\* C19: exitDvr() leaves dvrModeActive = false from any state and changes
\* nothing else; called with DVR mode already off it changes nothing.
C19_ExitDvr ==
    [][ApiExitDvr
       => /\ ~dvrModeActive'
          /\ UNCHANGED <<config, stored, lastKnownTime, seekStartTime,
                         lastSyncTime, syncCooldown, lastVideoId, pageVars>>
          /\ ~dvrModeActive => UNCHANGED dvrModeActive]_vars

C19_Witness ==
    /\ ev.op = "exitDvr" /\ ev.dvrExit
    /\ ~dvrModeActive /\ ~config.enabled /\ lastKnownTime > 0

\* C21 as claimed: the timer chain never ends: every tick, whatever its
\* decision and whatever targetBuffer setBuffer accepted, completes and
\* schedules the next one.
C21_LoopNeverStops == loopAlive

\* C22: the latency probe returns nothing when there is no buffered range
\* or when the edge is at or behind the position, and otherwise the edge and
\* latency = edge - position, which is then greater than 0.
C22_LatencyProbe ==
    ev.op = "getLatencyInfo" =>
        IF ev.edge = NoBuffer \/ ev.edge <= ev.current
        THEN ev.result = NoInfo
        ELSE /\ ~ev.result.none
             /\ ev.result.edge = ev.edge
             /\ ev.result.latency = ev.edge - ev.current
             /\ ev.result.latency > 0

\* the probe was asked with the edge exactly at the position
C22_Witness ==
    /\ ev.op = "getLatencyInfo"
    /\ ev.edge = ev.current
    /\ ev.result = NoInfo

\* C24: on YouTube TV the live-content predicate is true exactly when there
\* is a video and its duration is greater than 21600 seconds: 21600 is not
\* live, 21601 and an infinite duration are, a missing video and a NaN
\* duration are not.
C24_YttvLive ==
    ev.op = "isLiveContent" /\ ev.host = "tv.youtube.com" =>
        /\ ev.result = (ev.video /\ ev.duration # NaN /\ ev.duration > 21600)
        /\ ev.video /\ ev.duration = 21600 => ~ev.result
        /\ ev.video /\ ev.duration \in {21601, Infinity} => ev.result
        /\ ~ev.video \/ ev.duration = NaN => ~ev.result

\* YouTube TV was asked about a video of exactly 21600 seconds
C24_Witness ==
    /\ ev.op = "isLiveContent"
    /\ ev.host = "tv.youtube.com"
    /\ ev.video
    /\ ev.duration = 21600
    /\ ~ev.result

\* the keys a stored item overrides
StoredKeys ==
    IF stored = <<>> \/ stored[1] \in {EmptyItem, Unparseable} THEN {}
    ELSE DOMAIN stored[1]

\* C26: the configuration after loading is the defaults {enabled: true,
\* targetBuffer: 5, checkInterval: 6000, debugLogging: false} with the stored
\* keys laid over them: a stored key has the stored value, every other key
\* its default, and an absent or unparseable item gives exactly the defaults
\* (loading never fails: there is a configuration).
C26_LoadOverlay ==
        /\ DOMAIN config = {"enabled", "targetBuffer", "checkInterval",
                            "debugLogging"}
        /\ \A k \in DOMAIN config \cap StoredKeys : config[k] = stored[1][k]
        /\ "enabled" \notin StoredKeys => config.enabled = TRUE
        /\ "targetBuffer" \notin StoredKeys => config.targetBuffer = 5
        /\ "checkInterval" \notin StoredKeys => config.checkInterval = 6000
        /\ "debugLogging" \notin StoredKeys => config.debugLogging = FALSE

\* the page loaded with a stored item that has some keys but not all
C26_Witness ==
    /\ ev = NoEv
    /\ StoredKeys = {"targetBuffer"}
    /\ config.targetBuffer = 3
    /\ config.enabled

\* C23 as claimed: a snapshot is not carried across a content change that
\* the controller detected between the seek-start and the seek-end: no such
\* seek-end finds a rewind, which only the position before the change, kept
\* in the snapshot, can make it find (lastKnownTime was reset to 0).
C23_SnapshotNotCarried ==
    ev.op = "seeked" /\ ev.stale => ev.path # "rewind"

\* C27: position updates delivered between a seek-start and its seek-end
\* change lastKnownTime but not the snapshot: seekStartTime is still the
\* lastKnownTime of the seek-start, and the seek-end finds a rewind exactly
\* when it is outside the grace period and the position is more than 5 s
\* behind that snapshot, whatever was delivered in between.
C27_SnapshotProtects ==
    /\ seekStartTime = hist.snap
    /\ ev.op = "seeked" =>
        (ev.path = "rewind") =
            (now - lastSyncTime >= GraceMs /\ ev.snap - videoTime > JumpThreshold)

\* a seek-end found a rewind although a position update delivered after the
\* seek-start had already moved lastKnownTime to the new position
C27_Witness ==
    /\ ev.op = "seeked"
    /\ ev.path = "rewind"
    /\ ev.updated
    /\ ~ev.stale
    /\ lastKnownTime = videoTime

C29_OwnSeekNoDvr ==
    ev.op = "seeked" /\ ev.own /\ ev.ownOk =>
        /\ ev.path # "rewind"
        /\ dvrModeActive = ev.dvrBefore

\* the seek-end of a corrective seek was classified outside the grace period
C29_Witness ==
    /\ ev.op = "seeked"
    /\ ev.own
    /\ ev.ownOk
    /\ now - ev.ownAt >= GraceMs
    /\ ev.path = "small"

\* the page as getStatus may find it: an active video or none, live or not,
\* the end of the buffered range
StatusInputs ==
    [video : BOOLEAN, live : BOOLEAN, edge : {NoBuffer} \cup Times]

\* C25: getStatus returns enabled, dvrMode = dvrModeActive, targetBuffer,
\* debugLogging, currentLatency (null without an active video or a latency
\* sample, else edge - position) and isLive, and changes nothing of the
\* controller, the configuration, the storage or the page, so whatever
\* follows runs from the same state.
C25_GetStatusPure ==
    [][ev'.op = "getStatus" =>
        /\ UNCHANGED <<config, stored, ctrlVars, pageVars>>
        /\ \A in \in StatusInputs :
            LET s == getStatus(Ctrl, config, in.video, in.live, in.edge,
                               videoTime)
            IN  /\ s.enabled = config.enabled
                /\ s.dvrMode = dvrModeActive
                /\ s.targetBuffer = config.targetBuffer
                /\ s.debugLogging = config.debugLogging
                /\ s.isLive = in.live
                /\ s.currentLatency =
                        IF in.video /\ in.edge # NoBuffer /\ in.edge > videoTime
                        THEN in.edge - videoTime ELSE JsonNull]_vars

\* getStatus was called in DVR mode while a seek was in flight, and both
\* are as they were
C25_Witness ==
    /\ ev.op = "getStatus"
    /\ ev.dvrExit
    /\ dvrModeActive
    /\ seekPhase = "seeking"

C31_BoundedResponse == hist.high # "passAfterPass"

\* the tick after a cooldown tick found high latency again and sought
C31_Witness ==
    /\ ev.op = "tick"
    /\ ev.path = "synced"
    /\ hist.high = "seekAfterPass"

\* the tick reached the seek of lines 399-401 (with targetBuffer NaN the
\* assignment of line 401 then fails)
SeekBranch(path) == path \in {"synced", "threw"}

C33_ClassifierFrame ==
    [][/\ TimeUpdate =>
            /\ lastKnownTime' = videoTime
            /\ UNCHANGED <<config, stored, dvrModeActive, seekStartTime,
                           lastSyncTime, syncCooldown, lastVideoId, videoTime,
                           seekPhase, loopAlive>>
       /\ Seeking =>
            /\ seekStartTime' = lastKnownTime
            /\ seekPhase' # "started"
            /\ UNCHANGED <<config, stored, dvrModeActive, lastKnownTime,
                           lastSyncTime, syncCooldown, lastVideoId, videoTime,
                           loopAlive>>
       /\ Seeked =>
            /\ dvrModeActive => dvrModeActive'
            /\ seekPhase' # "started"
            /\ UNCHANGED <<config, stored, lastKnownTime, seekStartTime,
                           lastSyncTime, syncCooldown, lastVideoId, videoTime,
                           loopAlive>>]_vars

\* a seek-end in DVR mode found no rewind, and DVR mode is still on
C33_Witness ==
    /\ ev.op = "seeked"
    /\ ev.path = "small"
    /\ dvrModeActive

\* C34: with a targetBuffer that is a number >= 0, the first version of
\* handleSync in the source, the second version and the built script leave
\* the same dvrModeActive, syncCooldown, lastSyncTime, lastVideoId and
\* lastKnownTime and issue the same seek, from every state and page.
C34_BuildsAgree ==
    ev.op = "tick" /\ jsLe(0, config.targetBuffer) =>
        /\ ev.first = ev.second
        /\ ev.dist = ev.second
        /\ ev.second.c = Ctrl
        /\ ev.second.seeks = ev.seeks

\* a tick left DVR mode near the live edge, where the first version probes
\* the latency twice
C34_Witness ==
    /\ ev.op = "tick"
    /\ ev.dvrExit
    /\ ev.path = "settled"
    /\ ev.first = ev.second
    /\ ev.dist = ev.second

\* C38: the tick's decision is a function of dvrModeActive, syncCooldown,
\* lastVideoId, the configuration and what the tick reads from the page:
\* every controller that differs in lastKnownTime, seekStartTime or
\* lastSyncTime only issues the same seek (or none) and ends the tick with
\* the same dvrModeActive and syncCooldown.
C38_DecisionIndependent == ev.op = "tick" => ev.twins

\* a tick that issued a seek, as every controller with another
\* lastKnownTime, seekStartTime or lastSyncTime would have
C38_Witness ==
    /\ ev.op = "tick"
    /\ ev.path = "synced"
    /\ ev.twins
    /\ lastKnownTime # seekStartTime

\* C35 as claimed: from a configuration whose targetBuffer is a number
\* >= 0, whatever control operations, ticks and seek events follow, the
\* targetBuffer in memory and the one in storage are numbers >= 0, and the
\* threshold targetBuffer + 1.0 is a number >= 1.
C35_BufferStaysValid ==
    /\ IsBufferValue(config.targetBuffer)
    /\ stored # <<>> => IsBufferValue(stored[1].targetBuffer)
    /\ jsLe(1, syncThreshold(config.targetBuffer))

\* C36: lastVideoId starts as null, so the first eligible tick that reads a
\* content identifier records it, sets lastKnownTime to 0 and ends the tick
\* with DVR mode off, whatever was detected before it; an eligible tick that
\* reads the recorded identifier leaves lastKnownTime alone and changes DVR
\* mode only by the automatic exit near the live edge.
C36_FirstTickResets ==
    [][IsTick => \A in \in TickInputs :
        Eligible(in)
        => \/ /\ lastVideoId = NULL /\ in.currentId # "" =>
                    /\ lastVideoId' = in.currentId
                    /\ lastKnownTime' = 0
                    /\ ~dvrModeActive'
              /\ in.currentId = lastVideoId =>
                    /\ lastKnownTime' = lastKnownTime
                    /\ lastVideoId' = lastVideoId
                    /\ ~ev'.dvrReset
                    /\ dvrModeActive' = (dvrModeActive /\ ~ev'.dvrExit)
           \/ ~DiffStep(in)]_vars

\* DVR mode was on before the first eligible tick, which cleared it though
\* it had no latency sample
C36_Witness ==
    /\ ev.op = "tick"
    /\ ev.firstId
    /\ ev.dvrBefore
    /\ ev.path = "nosample"
    /\ ~dvrModeActive
    /\ lastKnownTime = 0

\* C37: the seek classifier does not look at the enabled flag: a seek-end
\* outside the grace period with a jump back of more than 5 s sets DVR mode
\* whether the controller is enabled or not; a tick of a disabled
\* controller leaves DVR mode as it is; enable() clears it.
C37_ClassifierWhileDisabled ==
    [][/\ (/\ ev'.op = "seeked"
           /\ now - lastSyncTime >= GraceMs
           /\ seekStartTime - videoTime > JumpThreshold) => dvrModeActive'
       /\ IsTick /\ ~config.enabled => dvrModeActive' = dvrModeActive
       /\ ev'.op = "enable" => ~dvrModeActive' /\ config'.enabled]_vars

\* a rewind was detected while the controller was disabled
C37_Witness ==
    /\ ev.op = "seeked"
    /\ ev.path = "rewind"
    /\ ~config.enabled
    /\ dvrModeActive

\* C39: however often the script body runs in a page, the top window has at
\* most one controller, with its three listeners and its one timer chain:
\* the first run in the top window constructs it, later runs stop at the
\* _liveSyncInitialized guard, and a run in a frame constructs nothing.
C39_SingleController ==
    /\ hist.window.controllers <= 1
    /\ hist.window.controllers = (IF hist.topRuns > 0 THEN 1 ELSE 0)
    /\ hist.window.listeners = 3 * hist.window.controllers
    /\ hist.window.loops = hist.window.controllers
    /\ hist.window.initialized = (hist.topRuns > 0)

\* the script ran again in the top window and in a frame, and the one timer
\* chain issued a seek
C39_Witness ==
    /\ hist.topRuns > 1
    /\ hist.frameRuns > 0
    /\ hist.window.controllers = 1
    /\ ev.op = "tick"
    /\ ev.seeks # <<>>

====
